---- MODULE Spec2Model ----
(***************************************************************************)
(* Model of backend/main.py: the upload (ingestion) and query handlers of  *)
(* the document assistant, the module globals vector_index and             *)
(* metadata_store they share, and the pure helper chunk_text.              *)
(*                                                                         *)
(* Scheduling.  Both handlers are `async def` coroutines run by one event  *)
(* loop.  query_document contains no `await`; upload_document awaits only  *)
(* save_upload and read_text, whose bodies contain no `await` either, and  *)
(* the openai calls are the blocking (synchronous) ones.  A handler body   *)
(* therefore runs from its first line to its return or raise without any   *)
(* other handler running in between.  Requests are concurrent only in the  *)
(* sense that several can have been received and be waiting for the event  *)
(* loop; the order in which the loop runs them is arbitrary.               *)
(***************************************************************************)
EXTENDS Integers, Sequences, FiniteSets, Bags, TLC

\* ------------------------------------------------------------------ bounds
\* Requests the clients may issue in one run of the service.
MaxReq == 3
\* Longest text fed to chunk_text in the chunker specification.
MaxTextLen == 1502
\* Number of distinct document contents in the chunker specification.
MaxTag == 2

\* --------------------------------------------------------------- constants
CHUNK_SIZE == 500
\* k of vector_index.search(q_vec, k=3)
K == 3

\* -------------------------------------------------------------------- text
\* A character is an integer; a text is a sequence of characters.  The text
\* of document `tag` has pairwise distinct characters, so that a dropped,
\* repeated or moved character changes the text.
Text(len, tag) == [i \in 1..len |-> tag * 10000 + i]

Min(a, b) == IF a < b THEN a ELSE b

\* Python slice s[a:b] for 0 <= a <= b: clamped at the end of s.
Slice(s, a, b) == SubSeq(s, a + 1, Min(b, Len(s)))

RECURSIVE Concat(_)
Concat(ss) == IF ss = <<>> THEN <<>> ELSE Head(ss) \o Concat(Tail(ss))

\* The loop of chunk_text: for i in range(0, len(text), CHUNK_SIZE).
RECURSIVE chunk_loop(_, _, _)
chunk_loop(text, i, chunks) ==
    IF i >= Len(text) THEN chunks
    ELSE chunk_loop(text, i + CHUNK_SIZE,
                    Append(chunks, Slice(text, i, i + CHUNK_SIZE)))

\* A chunker that loses the last character of every window.
chunk_text_short(text) ==
    LET n == (Len(text) + CHUNK_SIZE - 1) \div CHUNK_SIZE
    IN  [j \in 1..n |-> Slice(text, (j - 1) * CHUNK_SIZE, j * CHUNK_SIZE - 1)]

chunk_text(text) == chunk_loop(text, 0, <<>>)

\* ------------------------------------------------------------ python values
\* Python's None.
None == [none |-> TRUE]

\* The outcome of a call: a value, or the exception it raised and the source
\* line that raised it.
Ok(v) == [ok |-> TRUE, val |-> v, err |-> "", line |-> 0]
Raise(e, l) == [ok |-> FALSE, val |-> None, err |-> e, line |-> l]

\* Python list indexing lst[i] (lists here are 1-based sequences holding the
\* 0-based Python list): a negative i counts from the end of the list, and an
\* i outside -len..len-1 raises IndexError.
PyGetOk(lst, i) == i >= -Len(lst) /\ i < Len(lst)
PyGet(lst, i) == IF i >= 0 THEN lst[i + 1] ELSE lst[Len(lst) + i + 1]

\* ------------------------------------------------------------------ uploads
\* The uploaded files: the suffix of the file name and the text the extractor
\* obtains from the file (pdfminer / python-docx, outside the program).
FileNames == {"notes.txt", "blank.pdf", "memo.docx", "lease.pdf", "terms.docx"}

File(name) ==
    CASE name = "notes.txt"  -> [suffix |-> ".txt",  text |-> Text(3, 1)]
      [] name = "blank.pdf"  -> [suffix |-> ".pdf",  text |-> <<>>]
      [] name = "memo.docx"  -> [suffix |-> ".docx", text |-> Text(3, 4)]
      [] name = "lease.pdf"  ->
            [suffix |-> ".pdf", text |-> Text(CHUNK_SIZE + 1, 2)]
      [] name = "terms.docx" ->
            [suffix |-> ".docx", text |-> Text(3 * CHUNK_SIZE + 2, 3)]

read_text(file) ==
    IF file.suffix = ".pdf" THEN Ok(file.text)
    ELSE IF file.suffix = ".docx" THEN Ok(file.text)
    ELSE Raise("HTTP 400 Unsupported file type", 54)

\* --------------------------------------------------------------- embeddings
\* The embedding capability is external.  It answers a call either with an
\* error or with one vector per input text, in order; the vector of a text is
\* a fixed function of the text (a stand-in for the model), of dimension 2.
Embedding(text) ==
    IF text = <<>> THEN <<0, 0>>
    ELSE <<(text[1] % 3) - 1, (Len(text) % 3) - 1>>

EmbeddingOutcomes == {"data", "error"}

\* openai.Embedding.create(model=EMBEDDING_MODEL, input=input), raising at
\* the line `l` of the call; the list of e['embedding'] of the response.
Embedding_create(input, outcome, l) ==
    IF outcome = "error" THEN Raise("openai.error.OpenAIError", l)
    ELSE Ok([i \in 1..Len(input) |-> Embedding(input[i])])

\* ------------------------------------------------------------- vector index
\* faiss.IndexFlatIP: its dimension and the vectors added, in order of id.
ntotal(index) == Len(index.vecs)

build_faiss_index(embeddings) ==
    IF embeddings = <<>> THEN Raise("IndexError", 64)
    ELSE LET dim == Len(embeddings[1])
         IN  IF \E i \in 1..Len(embeddings) : Len(embeddings[i]) # dim
             THEN Raise("ValueError", 66)
             ELSE Ok([d |-> dim, vecs |-> embeddings])

\* The comprehension with chunks[i - 1] for chunks[i].
chunk_records_off_by_one(chunks) ==
    [i \in 1..Len(chunks) |->
        [id |-> i - 1, text |-> PyGet(chunks, i - 2)]]

\* The list comprehension of upload_document that becomes metadata_store.
chunk_records(chunks) ==
    [i \in 1..Len(chunks) |-> [id |-> i - 1, text |-> chunks[i]]]

\* upload_document(file) run against the globals (vi, ms), the embedding
\* call answering with `outcome`: what the handler returns or raises, the
\* external calls it made, and the globals it leaves.  save_upload only
\* copies the upload to a temporary file.
UploadFailed(e, calls, nchunks, vi, ms) ==
    [kind |-> "upload", status |-> "error", line |-> e.line, detail |-> e.err,
     calls |-> calls, chunks |-> nchunks,
     vector_index |-> vi, metadata_store |-> ms]

\* upload_document with the two publishing statements in the other order.
upload_document_store_first(file, outcome, vi, ms) ==
    LET text == read_text(file)
        chunks == chunk_text(text.val)
        resp == Embedding_create(chunks, outcome, 83)
        index == build_faiss_index(resp.val)
    IN  IF ~text.ok THEN UploadFailed(text, <<>>, 0, vi, ms)
        ELSE IF ~resp.ok
        THEN UploadFailed(resp, <<"embedding">>, Len(chunks), vi, ms)
        ELSE IF ~index.ok
        THEN UploadFailed(index, <<"embedding">>, Len(chunks), vi,
                          chunk_records(chunks))
        ELSE [kind |-> "upload", status |-> "indexed", line |-> 91,
              detail |-> "", calls |-> <<"embedding">>,
              chunks |-> Len(chunks),
              vector_index |-> index.val,
              metadata_store |-> chunk_records(chunks)]

\* upload_document that clears the globals before it starts.
upload_document_reset_first(file, outcome, vi, ms) ==
    LET text == read_text(file)
        chunks == chunk_text(text.val)
        resp == Embedding_create(chunks, outcome, 83)
        index == build_faiss_index(resp.val)
    IN  IF ~text.ok THEN UploadFailed(text, <<>>, 0, None, <<>>)
        ELSE IF ~resp.ok
        THEN UploadFailed(resp, <<"embedding">>, Len(chunks), None, <<>>)
        ELSE IF ~index.ok
        THEN UploadFailed(index, <<"embedding">>, Len(chunks), None, <<>>)
        ELSE [kind |-> "upload", status |-> "indexed", line |-> 91,
              detail |-> "", calls |-> <<"embedding">>,
              chunks |-> Len(chunks),
              vector_index |-> index.val,
              metadata_store |-> chunk_records(chunks)]

\* upload_document that publishes only when nothing is published yet.
upload_document_first_wins(file, outcome, vi, ms) ==
    LET text == read_text(file)
        chunks == chunk_text(text.val)
        resp == Embedding_create(chunks, outcome, 83)
        index == build_faiss_index(resp.val)
    IN  IF ~text.ok THEN UploadFailed(text, <<>>, 0, vi, ms)
        ELSE IF ~resp.ok
        THEN UploadFailed(resp, <<"embedding">>, Len(chunks), vi, ms)
        ELSE IF ~index.ok
        THEN UploadFailed(index, <<"embedding">>, Len(chunks), vi, ms)
        ELSE [kind |-> "upload", status |-> "indexed", line |-> 91,
              detail |-> "", calls |-> <<"embedding">>,
              chunks |-> Len(chunks),
              vector_index |-> IF vi = None THEN index.val ELSE vi,
              metadata_store |->
                  IF vi = None THEN chunk_records(chunks) ELSE ms]

upload_document(file, outcome, vi, ms) ==
    LET text == read_text(file)
        chunks == chunk_text(text.val)
        resp == Embedding_create(chunks, outcome, 83)
        index == build_faiss_index(resp.val)
    IN  IF ~text.ok THEN UploadFailed(text, <<>>, 0, vi, ms)
        ELSE IF ~resp.ok
        THEN UploadFailed(resp, <<"embedding">>, Len(chunks), vi, ms)
        ELSE IF ~index.ok
        THEN UploadFailed(index, <<"embedding">>, Len(chunks), vi, ms)
        ELSE [kind |-> "upload", status |-> "indexed", line |-> 91,
              detail |-> "", calls |-> <<"embedding">>,
              chunks |-> Len(chunks),
              vector_index |-> index.val,
              metadata_store |-> chunk_records(chunks)]

\* ------------------------------------------------------------------- search
\* Inner product of two vectors of the same dimension.
RECURSIVE InnerProduct(_, _)
InnerProduct(a, b) ==
    IF a = <<>> THEN 0
    ELSE Head(a) * Head(b) + InnerProduct(Tail(a), Tail(b))

Score(index, q_vec, id) == InnerProduct(q_vec, index.vecs[id + 1])

\* The distance faiss reports for a result slot it could not fill (the most
\* negative float; here the most negative integer of the model).
MissingDistance == -2147483647
\* The label faiss reports for such a slot.
MissingLabel == -1

\* The label rows I[0] that vector_index.search(q_vec, k) can return: the
\* min(k, ntotal) ids of greatest inner product, by descending inner product,
\* then MissingLabel up to length k.  The order of ids of equal inner product
\* is the library's choice.
SearchLabels(index, q_vec, k) ==
    LET n == Min(k, ntotal(index))
        ids == 0..(ntotal(index) - 1)
        score == [i \in ids |-> Score(index, q_vec, i)]
        rows == { g \in [1..n -> ids] :
                    /\ \A a \in 1..(n - 1) :
                          /\ score[g[a]] >= score[g[a + 1]]
                          /\ \A b \in (a + 1)..n : g[a] # g[b]
                    /\ \A i \in ids :
                          (\A b \in 1..n : g[b] # i) => score[g[n]] >= score[i] }
    IN  { [j \in 1..k |-> IF j <= n THEN g[j] ELSE MissingLabel] : g \in rows }

\* The distance row D[0] that goes with the label row.
SearchDistances(index, q_vec, labels) ==
    [j \in 1..Len(labels) |->
        IF labels[j] = MissingLabel THEN MissingDistance
        ELSE Score(index, q_vec, labels[j])]

\* ----------------------------------------------------------------- citation
\* A response text is a sequence of one-character strings.
Digits == <<"0", "1", "2", "3", "4", "5", "6", "7", "8", "9">>
IsDigit(c) == c \in {"0", "1", "2", "3", "4", "5", "6", "7", "8", "9"}
DigitValue(c) == (CHOOSE i \in 1..10 : Digits[i] = c) - 1

\* Length of the longest run of digits of s that starts at position p.
RECURSIVE DigitRun(_, _)
DigitRun(s, p) ==
    IF p > Len(s) \/ ~IsDigit(s[p]) THEN 0 ELSE 1 + DigitRun(s, p + 1)

\* int() of a non-empty sequence of digits.
RECURSIVE ToInt(_)
ToInt(ds) ==
    IF ds = <<>> THEN 0
    ELSE 10 * ToInt(SubSeq(ds, 1, Len(ds) - 1)) + DigitValue(ds[Len(ds)])

\* The pattern \[(\d+)\] matches at position p: "[", one or more digits, "]".
MatchesAt(s, p) ==
    /\ s[p] = "["
    /\ LET n == DigitRun(s, p + 1)
       IN  /\ n >= 1
           /\ p + 1 + n <= Len(s)
           /\ s[p + 1 + n] = "]"

\* re.search(r"\[(\d+)\]", ans): the leftmost match with its group 1, or None.
re_search(ans) ==
    LET ps == {p \in 1..Len(ans) : MatchesAt(ans, p)}
    IN  IF ps = {} THEN None
        ELSE LET p == CHOOSE x \in ps : \A y \in ps : x <= y
             IN  [group |-> SubSeq(ans, p + 1, p + DigitRun(ans, p + 1))]

\* The responses of the generation capability.
Answers ==
    { <<"n", "o">>,
      <<"d", "a", "y", "s", ".", " ", "[", "2", "]">>,
      <<"[", "0", "]">>,
      <<"[", "3", "]">>,
      <<"[", "7", "]">>,
      <<"[", "x", "]", "[", "0", "1", "]">>,
      <<"[", "5", "]", "[", "1", "]">>,
      <<"[", "1">>,
      <<"[", "-", "1", "]">> }

\* openai.ChatCompletion.create(...): the response text `ans`, or an error.
ChatCompletion_create(ans, outcome) ==
    IF outcome = "error" THEN Raise("openai.error.OpenAIError", 109)
    ELSE Ok(ans)

\* The questions of the clients.
Questions == {Text(2, 5), Text(3, 7)}

\* -------------------------------------------------------------------- query
\* The guard of query_document.
no_document_always(vi) == FALSE

no_document(vi) == vi = None

QueryResult(status, line, detail, calls) ==
    [kind |-> "query", status |-> status, line |-> line, detail |-> detail,
     calls |-> calls, top_idxs |-> <<>>, D |-> <<>>, sources |-> <<>>,
     answer |-> <<>>, source_idx |-> 0, source_clause |-> <<>>,
     confidence |-> 0]

QueryFailed(e, calls) == QueryResult("error", e.line, e.err, calls)

\* Position of the first occurrence of x in a list (list.index), 0-based.
ListIndexOk(lst, x) == \E j \in 1..Len(lst) : lst[j] = x
ListIndex(lst, x) ==
    (CHOOSE j \in 1..Len(lst) :
        lst[j] = x /\ \A h \in 1..(j - 1) : lst[h] # x) - 1

\* The source index chosen from the match and the retrieved ids.
source_index(match, top_idxs) ==
    IF match # None THEN ToInt(match.group) ELSE top_idxs[1]

\* sources = [metadata_store[i]['text'] for i in top_idxs]
resolve_sources(ms, top_idxs) ==
    IF \E j \in 1..Len(top_idxs) : ~PyGetOk(ms, top_idxs[j])
    THEN Raise("IndexError", 104)
    ELSE Ok([j \in 1..Len(top_idxs) |-> PyGet(ms, top_idxs[j]).text])

\* query_document(req) run against the globals (vi, ms): the embedding call
\* answers with `outcome`, the search returns the label row `labels`, the
\* generation call answers with `chat` (an outcome of ChatCompletion_create).
query_document(question, outcome, labels, chat, vi, ms) ==
    LET q_emb == Embedding_create(<<question>>, outcome, 97)
        q_vec == q_emb.val[1]
        D == SearchDistances(vi, q_vec, labels)
        top_idxs == labels
        sources == resolve_sources(ms, top_idxs)
        ans == chat.val
        match == re_search(ans)
        source_idx == source_index(match, top_idxs)
        searched == [QueryResult("error", 0, "", <<"embedding">>)
                        EXCEPT !.top_idxs = top_idxs, !.D = D]
        prompted == [searched EXCEPT !.sources = sources.val,
                                     !.calls = <<"embedding", "chat">>]
        parsed == [prompted EXCEPT !.answer = ans, !.source_idx = source_idx]
        cited == [parsed EXCEPT
                     !.source_clause = PyGet(ms, source_idx).text]
    IN  IF no_document(vi)
        THEN QueryFailed(Raise("HTTP 400 No document indexed", 96), <<>>)
        ELSE IF ~q_emb.ok THEN QueryFailed(q_emb, <<"embedding">>)
        ELSE IF vi = None
        THEN QueryFailed(Raise("AttributeError", 102), <<"embedding">>)
        ELSE IF ~sources.ok
        THEN [searched EXCEPT !.line = 104, !.detail = sources.err]
        ELSE IF ~chat.ok
        THEN [prompted EXCEPT !.line = chat.line, !.detail = chat.err]
        ELSE IF ~PyGetOk(ms, source_idx)
        THEN [parsed EXCEPT !.line = 117, !.detail = "IndexError"]
        ELSE IF ~ListIndexOk(top_idxs, source_idx)
        THEN [cited EXCEPT !.line = 118, !.detail = "ValueError"]
        ELSE [cited EXCEPT !.status = "ok", !.line = 119,
                 !.confidence = D[ListIndex(top_idxs, source_idx) + 1]]

\* ------------------------------------------------------------------- state
\* vector_index, metadata_store: the module globals.
\* pending: the requests received whose handler the event loop has not run
\*   yet (a bag: HTTP requests have no identity); a pending request remembers
\*   in `seen` the file that was published when it was received.
\* last: what the handler that ran last returned or raised, with its locals,
\*   and `overtaken`: whether another file was published between the moment
\*   the request was received and the moment its handler ran; for a query
\*   also `searched`, the file published when it ran, and `seen`, whether a
\*   file was published when it was received.
\* done: the requests answered, with the status of the answer.
\* last_indexed: the file of the last upload that returned "indexed".
\* ct_text, ct_pc, ct_out: argument, position and result of a call of
\*   chunk_text on its own (chunker specification).
VARIABLES vector_index, metadata_store, pending, done, last, last_indexed,
          ct_text, ct_pc, ct_out

vars == <<vector_index, metadata_store, pending, done, last, last_indexed,
          ct_text, ct_pc, ct_out>>
svc_vars == <<vector_index, metadata_store, pending, done, last, last_indexed>>
ct_vars == <<ct_text, ct_pc, ct_out>>

NoFile == ""

\* The state after the module is loaded.
SvcInit ==
    /\ vector_index = None
    /\ metadata_store = <<>>
    /\ pending = EmptyBag
    /\ done = EmptyBag
    /\ last = [kind |-> "none"]
    /\ last_indexed = NoFile

Init ==
    /\ SvcInit
    /\ ct_text = <<>>
    /\ ct_pc = "idle"
    /\ ct_out = <<>>

Issued == BagCardinality(pending) + BagCardinality(done)

\* A client issues a request: POST /upload or POST /query.
Submit(kind) ==
    /\ Issued < MaxReq
    /\ pending' = pending (+) SetToBag({[kind |-> kind, seen |-> last_indexed]})
    /\ UNCHANGED <<vector_index, metadata_store, done, last, last_indexed,
                   ct_vars>>

\* The request req leaves the pending requests, answered with `status`.
Answered(req, status) ==
    /\ pending' = pending (-) SetToBag({req})
    /\ done' = done (+) SetToBag({[kind |-> req.kind, status |-> status]})

\* The event loop runs the handler of a pending upload to its end.
RunUpload ==
    \E req \in BagToSet(pending) :
       /\ req.kind = "upload"
       /\ \E name \in FileNames, outcome \in EmbeddingOutcomes :
            LET res == upload_document(File(name), outcome,
                                       vector_index, metadata_store)
            IN  /\ vector_index' = res.vector_index
                /\ metadata_store' = res.metadata_store
                /\ last' = [kind |-> "upload", file |-> name,
                            overtaken |-> req.seen # last_indexed,
                            status |-> res.status, line |-> res.line,
                            detail |-> res.detail, calls |-> res.calls,
                            chunks |-> res.chunks]
                /\ last_indexed' =
                      IF last'.status = "indexed" THEN name ELSE last_indexed
                /\ Answered(req, last'.status)
       /\ UNCHANGED ct_vars

\* The label rows the search of a query can return, when the query gets as
\* far as the search.
SearchOutcomes(question, outcome, vi) ==
    IF vi = None \/ outcome = "error" THEN {<<>>}
    ELSE SearchLabels(vi, Embedding(question), K)

\* The handler of the pending query req runs to its end with the given
\* question and outcomes of the calls it makes.
QueryRun(req, question, outcome, labels, chat) ==
    /\ last' = [query_document(question, outcome, labels, chat,
                               vector_index, metadata_store)
                  EXCEPT !.kind = "query"]
                 @@ [seen |-> req.seen # NoFile,
                     overtaken |-> req.seen # last_indexed,
                     searched |-> last_indexed]
    /\ Answered(req, last'.status)
    /\ UNCHANGED <<vector_index, metadata_store, last_indexed, ct_vars>>

\* The event loop runs the handler of a pending query to its end.  The
\* generation call answers with an error or with a response text; it has an
\* answer only in the runs that reach it.
RunQuery ==
    \E req \in BagToSet(pending) :
       /\ req.kind = "query"
       /\ \E question \in Questions, outcome \in EmbeddingOutcomes :
            \E labels \in SearchOutcomes(question, outcome, vector_index) :
               \/ QueryRun(req, question, outcome, labels,
                           ChatCompletion_create(<<>>, "error"))
               \/ /\ labels # <<>>
                  /\ \E ans \in Answers :
                       QueryRun(req, question, outcome, labels,
                                ChatCompletion_create(ans, "data"))

Next ==
    \/ Submit("upload")
    \/ Submit("query")
    \/ RunUpload
    \/ RunQuery

Spec == Init /\ [][Next]_vars

\* --------------------------------------------------------------- properties
\* What an ingestion of the file `name` is to publish.
ChunksOf(name) == chunk_text(File(name).text)
StoreOf(name) ==
    [i \in 1..Len(ChunksOf(name)) |-> [id |-> i - 1, text |-> ChunksOf(name)[i]]]
IndexOf(name) ==
    [d |-> Len(Embedding(ChunksOf(name)[1])),
     vecs |-> [i \in 1..Len(ChunksOf(name)) |-> Embedding(ChunksOf(name)[i])]]

Range(f) == {f[i] : i \in DOMAIN f}
Indexed == CopiesIn([kind |-> "upload", status |-> "indexed"], done)
QueryRan == last.kind = "query"
UploadRan == last.kind = "upload"

\* C1: once an upload has returned "indexed", in every state a handler can
\* start in, the published index holds as many vectors as metadata_store has
\* chunks, and vector i is the embedding of chunk i of metadata_store (the
\* two are never of different ingestions).
C1_IndexMatchesStore ==
    last_indexed # NoFile =>
        /\ vector_index # None
        /\ ntotal(vector_index) = Len(metadata_store)
        /\ \A i \in 1..Len(metadata_store) :
              /\ vector_index.vecs[i] = Embedding(metadata_store[i].text)
              /\ metadata_store[i].id = i - 1

\* A query was answered after a second ingestion had replaced the document
\* of the first.
C1_Witness ==
    /\ QueryRan
    /\ last.status = "ok"
    /\ Indexed >= 2
    /\ ntotal(vector_index) = Len(metadata_store)

\* C2: a query that gets as far as the search resolves every retrieved id
\* that is an id of the document published when it searched, and the cited
\* id if it is one, to the text of that id in that document, whatever was
\* published while the query was waiting; it fails to resolve (IndexError)
\* only ids that are no id of that document.
C2_QueryResolvesInSearchedSnapshot ==
    (QueryRan /\ last.line > 97) =>
        /\ last.searched # NoFile
        /\ LET snap == ChunksOf(last.searched)
               valid == 0..(Len(snap) - 1)
           IN  /\ last.line \notin {102, 104}
               /\ last.line > 104 =>
                     \A j \in 1..Len(last.top_idxs) :
                        last.top_idxs[j] \in valid =>
                           last.sources[j] = snap[last.top_idxs[j] + 1]
               /\ last.line = 117 => last.source_idx \notin valid
               /\ last.line > 117 =>
                     /\ last.source_idx \in valid
                     /\ last.source_clause = snap[last.source_idx + 1]

\* A query received while one document was published ran, and was answered,
\* after the ingestion of another document had completed.
C2_Witness ==
    /\ QueryRan
    /\ last.status = "ok"
    /\ last.seen
    /\ last.overtaken
    /\ last.source_clause = ChunksOf(last.searched)[last.source_idx + 1]

\* C3 (as claimed): whenever the generation call has answered, the cited id
\* is one of the retrieved ids: the bracketed integer of the response if
\* there is one and it is a retrieved id, else the top-ranked retrieved id.
C3_CitedAmongRetrieved ==
    (QueryRan /\ last.line > 109) =>
        LET match == re_search(last.answer)
            retrieved == Range(last.top_idxs)
        IN  /\ last.source_idx \in retrieved
            /\ last.source_idx =
                  IF match # None /\ ToInt(match.group) \in retrieved
                  THEN ToInt(match.group)
                  ELSE last.top_idxs[1]

\* C4 (as claimed): whenever the generation call has answered, the query
\* succeeds and its confidence is the score of the retrieved entry of the
\* cited id, the top-ranked entry's score when the parsed id is not retrieved.
C4_ConfidenceOfCited ==
    (QueryRan /\ last.line > 109) =>
        LET match == re_search(last.answer)
            retrieved == Range(last.top_idxs)
        IN  /\ last.status = "ok"
            /\ last.confidence =
                  IF match # None /\ ToInt(match.group) \in retrieved
                  THEN last.D[ListIndex(last.top_idxs, ToInt(match.group)) + 1]
                  ELSE last.D[1]

\* C5: a query that runs when no upload has ever returned "indexed" raises
\* HTTP 400 "No document indexed" at the guard, having made no external call.
C5_NoDocumentRejected ==
    (QueryRan /\ last.searched = NoFile) =>
        /\ last.status = "error"
        /\ last.line = 96
        /\ last.detail = "HTTP 400 No document indexed"
        /\ last.calls = <<>>

\* A query was rejected at the guard after an ingestion had failed.
C5_Witness ==
    /\ QueryRan
    /\ last.line = 96
    /\ last.calls = <<>>
    /\ CopiesIn([kind |-> "upload", status |-> "error"], done) >= 1

\* C6 (as claimed): the label row the query uses holds ids of indexed chunks
\* only, each once, at most K of them, and all of them when the index holds
\* no more than K vectors.
C6_SearchReturnsIndexedIds ==
    (QueryRan /\ last.line > 102) =>
        LET ids == 0..(ntotal(vector_index) - 1)
        IN  /\ Len(last.top_idxs) <= K
            /\ Range(last.top_idxs) \subseteq ids
            /\ \A a, b \in 1..Len(last.top_idxs) :
                  a # b => last.top_idxs[a] # last.top_idxs[b]
            /\ ntotal(vector_index) <= K => Range(last.top_idxs) = ids

\* C8 (as claimed): an upload whose extracted text is empty is rejected in
\* chunk_text (lines 57 to 61), before any embedding call.
C8_EmptyTextRejected ==
    (UploadRan /\ read_text(File(last.file)).ok
               /\ File(last.file).text = <<>>) =>
        /\ last.status = "error"
        /\ last.line \in 57..61
        /\ last.calls = <<>>

\* C9: when two or more uploads have returned "indexed" and no upload is
\* waiting, vector_index and metadata_store are exactly what the ingestion of
\* the file of the last of them publishes.
C9_LastPublishWins ==
    (Indexed >= 2 /\ \A req \in BagToSet(pending) : req.kind # "upload") =>
        /\ vector_index = IndexOf(last_indexed)
        /\ metadata_store = StoreOf(last_indexed)

\* Two uploads of different files were waiting at the same time and both
\* returned "indexed"; the second has just run.
C9_Witness ==
    /\ UploadRan
    /\ last.status = "indexed"
    /\ last.overtaken
    /\ Indexed >= 2
    /\ \A req \in BagToSet(pending) : req.kind # "upload"
    /\ metadata_store = StoreOf(last.file)

\* C10: a step in which an upload fails leaves vector_index and
\* metadata_store as they were.
C10_FailedUploadKeepsGlobals ==
    [][(done' # done /\ last'.kind = "upload" /\ last'.status = "error")
          => (vector_index' = vector_index /\ metadata_store' = metadata_store)]_vars

\* An upload failed in build_faiss_index while a document was published, and
\* that document is still published.
C10_Witness ==
    /\ UploadRan
    /\ last.status = "error"
    /\ last.line = 64
    /\ last_indexed # NoFile
    /\ metadata_store = StoreOf(last_indexed)
    /\ vector_index = IndexOf(last_indexed)

\* ----------------------------------------------- chunker specification
ChunkInit ==
    /\ SvcInit
    /\ ct_text \in {Text(len, tag) : len \in 0..MaxTextLen, tag \in 1..MaxTag}
    /\ ct_pc = "call"
    /\ ct_out = <<>>

ChunkCall ==
    /\ ct_pc = "call"
    /\ ct_out' = chunk_text(ct_text)
    /\ ct_pc' = "return"
    /\ UNCHANGED <<ct_text, svc_vars>>

SpecChunk == ChunkInit /\ [][ChunkCall]_vars

\* C7: for every non-empty text, chunk_text returns pieces of length 1 to
\* CHUNK_SIZE, every piece but the last has length exactly CHUNK_SIZE, and
\* the pieces concatenated in order are the text.
C7_ChunkRoundTrip ==
    (ct_pc = "return" /\ ct_text # <<>>) =>
        /\ Len(ct_out) >= 1
        /\ \A j \in 1..Len(ct_out) :
              /\ Len(ct_out[j]) >= 1
              /\ Len(ct_out[j]) <= CHUNK_SIZE
              /\ (j < Len(ct_out) => Len(ct_out[j]) = CHUNK_SIZE)
        /\ Concat(ct_out) = ct_text

\* A text of more than two full windows and a shorter last piece was chunked.
C7_Witness ==
    /\ ct_pc = "return"
    /\ Len(ct_out) >= 3
    /\ Len(ct_out[Len(ct_out)]) < CHUNK_SIZE
    /\ Len(ct_out[Len(ct_out)]) >= 1
====
